---------------------------- MODULE Spec2Model ----------------------------
(***************************************************************************)
(* Model of app.py: the content-item lifecycle (products and gallery       *)
(* images, each an uploaded file plus a database row) and the              *)
(* consultation-request workflow (pending -> accepted / rejected).         *)
(*                                                                         *)
(* Strings that the code takes apart (upload filenames) are sequences of   *)
(* one-character strings; strings the code only stores or compares are     *)
(* TLA+ strings.                                                           *)
(***************************************************************************)
EXTENDS Integers, Sequences, FiniteSets, TLC

(***************************************************************************)
(* Python string helpers used by allowed_file and secure_filename.         *)
(***************************************************************************)
UpperAlpha == << "A", "B", "C", "D", "E", "F", "G", "H", "I", "J", "K", "L", "M",
                 "N", "O", "P", "Q", "R", "S", "T", "U", "V", "W", "X", "Y", "Z" >>

LowerAlpha == << "a", "b", "c", "d", "e", "f", "g", "h", "i", "j", "k", "l", "m",
                 "n", "o", "p", "q", "r", "s", "t", "u", "v", "w", "x", "y", "z" >>

Digits == { "0", "1", "2", "3", "4", "5", "6", "7", "8", "9" }

Range(s) == { s[i] : i \in 1..Len(s) }

\* str.lower(), one character
LowerChar(c) ==
    IF \E i \in 1..Len(UpperAlpha) : UpperAlpha[i] = c
    THEN LowerAlpha[CHOOSE i \in 1..Len(UpperAlpha) : UpperAlpha[i] = c]
    ELSE c

\* str.lower()
Lower(s) == [i \in 1..Len(s) |-> LowerChar(s[i])]

\* the index of the last "." of s, 0 when s has none
LastDot(s) ==
    IF \E i \in 1..Len(s) : s[i] = "."
    THEN CHOOSE i \in 1..Len(s) : s[i] = "." /\ \A j \in (i+1)..Len(s) : s[j] # "."
    ELSE 0

\* filename.rsplit(".", 1)[1], for a filename that holds a "."
RsplitDotTail(s) == SubSeq(s, LastDot(s) + 1, Len(s))

\* ALLOWED_EXTENSIONS = {"png", "jpg", "jpeg", "gif", "webp"}
ALLOWED_EXTENSIONS ==
    { << "p", "n", "g" >>, << "j", "p", "g" >>, << "j", "p", "e", "g" >>,
      << "g", "i", "f" >>, << "w", "e", "b", "p" >> }

\* a mutant of allowed_file: the extension is compared without .lower()
allowed_file_case_sensitive(filename) ==
    /\ LastDot(filename) # 0
    /\ RsplitDotTail(filename) \in ALLOWED_EXTENSIONS

\* a mutant of allowed_file: every filename with a "." is accepted
allowed_file_any_extension(filename) ==
    LastDot(filename) # 0

\* allowed_file(filename)
allowed_file(filename) ==
    /\ LastDot(filename) # 0
    /\ Lower(RsplitDotTail(filename)) \in ALLOWED_EXTENSIONS

(***************************************************************************)
(* werkzeug.utils.secure_filename, on a POSIX host (os.sep = "/", no       *)
(* altsep, no Windows device-name check).                                  *)
(***************************************************************************)
\* the one non-ASCII letter of the model's alphabet and its NFKD parts
EAcute == "e-acute"
CombiningAcute == "combining-acute"

AsciiChars ==
    Range(UpperAlpha) \cup Range(LowerAlpha) \cup Digits \cup { ".", "_", "-", "/", " " }

\* unicodedata.normalize("NFKD", c)
NFKD(c) == IF c = EAcute THEN << "e", CombiningAcute >> ELSE << c >>

RECURSIVE Concat(_)
\* "".join(parts)
Concat(parts) ==
    IF parts = << >> THEN << >> ELSE Head(parts) \o Concat(Tail(parts))

\* .encode("ascii", "ignore").decode("ascii"), one character
AsciiIgnore(c) == IF c \in AsciiChars THEN << c >> ELSE << >>

\* filename.replace(os.sep, " "), one character
ReplaceSep(c) == IF c = "/" THEN << " " >> ELSE << c >>

RECURSIVE SplitWs(_, _)
\* str.split(): the maximal runs of non-whitespace of s (cur is the run being read)
SplitWs(s, cur) ==
    IF s = << >>
    THEN IF cur = << >> THEN << >> ELSE << cur >>
    ELSE IF Head(s) = " "
         THEN (IF cur = << >> THEN << >> ELSE << cur >>) \o SplitWs(Tail(s), << >>)
         ELSE SplitWs(Tail(s), Append(cur, Head(s)))

RECURSIVE JoinWith(_, _)
\* sep.join(words)
JoinWith(sep, words) ==
    IF words = << >> THEN << >>
    ELSE IF Len(words) = 1 THEN words[1]
    ELSE words[1] \o << sep >> \o JoinWith(sep, Tail(words))

\* _filename_ascii_strip_re = [^A-Za-z0-9_.-], one character
AsciiStrip(c) ==
    IF c \in Range(UpperAlpha) \cup Range(LowerAlpha) \cup Digits \cup { "_", ".", "-" }
    THEN << c >> ELSE << >>

RECURSIVE LStrip(_, _)
\* str.lstrip(chars)
LStrip(s, chars) ==
    IF s # << >> /\ Head(s) \in chars THEN LStrip(Tail(s), chars) ELSE s

RECURSIVE RStrip(_, _)
\* str.rstrip(chars)
RStrip(s, chars) ==
    IF s # << >> /\ s[Len(s)] \in chars THEN RStrip(SubSeq(s, 1, Len(s) - 1), chars) ELSE s

\* a mutant of secure_filename: the supplied name is used as it is
secure_filename_identity(filename) == filename

\* secure_filename(filename)
secure_filename(filename) ==
    LET normalized == Concat([i \in 1..Len(filename) |-> NFKD(filename[i])])
        ascii      == Concat([i \in 1..Len(normalized) |-> AsciiIgnore(normalized[i])])
        nosep      == Concat([i \in 1..Len(ascii) |-> ReplaceSep(ascii[i])])
        joined     == JoinWith("_", SplitWs(nosep, << >>))
        stripped   == Concat([i \in 1..Len(joined) |-> AsciiStrip(joined[i])])
    IN  RStrip(LStrip(stripped, { ".", "_" }), { ".", "_" })


(***************************************************************************)
(* Bounds and the inputs the requests are drawn from.                      *)
(***************************************************************************)
\* at most this many content rows (products and gallery images) are ever inserted
MaxItems == 2

\* at most this many consultation requests are ever inserted
MaxRequests == 2

\* the server clock (requested_on) runs up to this value
MaxClock == 1

\* Python's None where the model needs it as a value: a form field or JSON key that
\* is not sent, a database statement or os.remove that raises nothing
None == "None"

\* request.files: no "image" part, or a FileStorage with a filename and a payload
NoFile == [present |-> FALSE]
Upload(filename, payload) == [present |-> TRUE, filename |-> filename, payload |-> payload]

\* the uploads: an allowed name (with either payload), a name that sanitizes to the
\* same name, an upper-case extension, a disallowed extension, no extension, an
\* empty name, no file at all
Uploads ==
    { Upload(<< "a", ".", "p", "n", "g" >>, "bytes1"),
      Upload(<< "a", ".", "p", "n", "g" >>, "bytes2"),
      Upload(<< ".", ".", "/", "a", ".", "p", "n", "g" >>, "bytes2"),
      Upload(<< "b", ".", "P", "N", "G" >>, "bytes1"),
      Upload(<< "a", ".", "e", "x", "e" >>, "bytes1"),
      Upload(<< "p", "n", "g" >>, "bytes1"),
      Upload(<< >>, "bytes1"),
      NoFile }

\* allowed_file and secure_filename over the names the model uploads
AllowedFile == [filename \in { u.filename : u \in Uploads \ { NoFile } } |->
                   allowed_file(filename)]
SecureFilename == [filename \in { u.filename : u \in Uploads \ { NoFile } } |->
                      secure_filename(filename)]

\* request.form of POST /add_product: a field the form does not send is None
\* (price = request.form.get("price", 0.0))
ProductForms ==
    { [name |-> "Mat", description |-> "A yoga mat", price |-> None],
      [name |-> "Oil", description |-> "Massage oil", price |-> "499"] }

\* request.form of POST /add_gallery_image (category = request.form.get("category", "all"))
GalleryForms ==
    { [title |-> "Pose", category |-> None],
      [title |-> "Class", category |-> "yoga"] }

\* the password typed into the login form (None: no "password" key)
Passwords == { None, "pawar@yoga", "guess" }

\* str(e) of the exception a failing database statement raises
DbErrors == { "OperationalError" }

\* e.strerror of the OSError os.remove raises
ENOENT == "No such file or directory"
EACCES == "Permission denied"

\* what a database statement and its commit may do: raise nothing, or raise
DbOutcomes == { None } \cup DbErrors

\* what the file system may do to os.remove of a file that is there: nothing, or refuse
RmOutcomes == { None, EACCES }

VARIABLES
    products,      \* table products: id -> [name, description, price, image_filename]
    productSeq,    \* the last id the products id sequence handed out
    gallery,       \* table gallery: id -> [title, image_filename, category]
    gallerySeq,    \* the last id the gallery id sequence handed out
    requests,      \* table consultation_requests: id -> [name, contact, notes, status, requested_on]
    requestSeq,    \* the last id the consultation_requests id sequence handed out
    clock,         \* the database server's clock, the source of requested_on
    files,         \* the upload directory: sanitized filename -> payload
    session,       \* the Flask session, a dict: the keys it holds -> their values
    endpoint,      \* request.endpoint of the last request served on its own: its view
    response,      \* the response to the last request served on its own
    logged,        \* what the last step wrote to app.logger.error
    thr            \* the requests being served concurrently: worker -> its position,
                   \* its locals and, once it is done, its response

vars == << products, productSeq, gallery, gallerySeq, requests, requestSeq, clock,
           files, session, endpoint, response, logged, thr >>

(***************************************************************************)
(* The Record Store's statements and the Blob Store's calls.               *)
(***************************************************************************)
\* the id a serial column gives the next inserted row
NextId(seq) == seq + 1

\* INSERT INTO <table> ... : the table with one more row
InsertRow(table, id, row) ==
    [i \in DOMAIN table \cup { id } |-> IF i = id THEN row ELSE table[i]]

\* a mutant of DeleteRow: the statement deletes no row
DeleteRowNone(table, id) == table

\* DELETE FROM <table> WHERE id = :id (no such row: nothing is deleted, nothing is raised)
DeleteRow(table, id) == [i \in DOMAIN table \ { id } |-> table[i]]

\* SELECT image_filename FROM <table> WHERE id = :id ... fetchone(): << >> is None
SelectImageFilename(table, id) ==
    IF id \in DOMAIN table
    THEN << [image_filename |-> table[id].image_filename] >>
    ELSE << >>

\* a mutant of FileSave: nothing is written
FileSaveNothing(dir, filename, payload) == dir

\* a mutant of FileSave: a file that is already there is not overwritten
FileSaveNew(dir, filename, payload) ==
    [f \in DOMAIN dir \cup { filename } |-> IF f \in DOMAIN dir THEN dir[f] ELSE payload]

\* file.save(os.path.join(UPLOAD_FOLDER, filename)): creates or overwrites
FileSave(dir, filename, payload) ==
    [f \in DOMAIN dir \cup { filename } |-> IF f = filename THEN payload ELSE dir[f]]

\* os.remove(os.path.join(UPLOAD_FOLDER, filename)), when it does not raise
OsRemove(dir, filename) == [f \in DOMAIN dir \ { filename } |-> dir[f]]

\* a mutant of OsRemoveError: the file system never refuses
OsRemoveErrorNoRefusal(dir, filename, rmError) ==
    IF filename \notin DOMAIN dir THEN ENOENT ELSE None

\* what os.remove raises: ENOENT when the file is not there, else what the
\* file system refuses (rmError), else nothing
OsRemoveError(dir, filename, rmError) ==
    IF filename \notin DOMAIN dir THEN ENOENT ELSE rmError

(***************************************************************************)
(* The session dict, responses and log lines.                              *)
(***************************************************************************)
\* d[k] = v
DictSet(d, k, v) == [x \in DOMAIN d \cup { k } |-> IF x = k THEN v ELSE d[x]]

\* d.pop(k, None), the dict that is left
DictPop(d, k) == [x \in DOMAIN d \ { k } |-> d[x]]

\* a mutant of Flash: every message is given the type success
FlashAlwaysSuccess(message, type) ==
    DictSet(DictSet(session, "message", message), "message_type", "success")

\* session["message"] = message; session["message_type"] = type
Flash(message, type) == DictSet(DictSet(session, "message", message), "message_type", type)

\* a mutant of IsAdmin: the key is in the session, whatever its value
IsAdminKeyPresent == "admin_logged_in" \in DOMAIN session

\* session.get("admin_logged_in") is truthy
IsAdmin == "admin_logged_in" \in DOMAIN session /\ session["admin_logged_in"] = TRUE

\* redirect(url_for(view))
Redirect(view) == [kind |-> "redirect", status |-> 302, location |-> view]

\* jsonify({"success": ..., "message": ...}), status
Json(status, success, message) ==
    [kind |-> "json", status |-> status, success |-> success, message |-> message]

\* jsonify({"success": True, "redirect": url_for(view)})
JsonRedirect(view) ==
    [kind |-> "json", status |-> 200, success |-> TRUE, redirect |-> view]

\* render_template(template, **context)
Html(template, context) ==
    [kind |-> "html", status |-> 200, template |-> template, context |-> context]

\* the flash and JSON messages: the format string and what fills it
MsgNoSelectedFile == [fmt |-> "No selected file"]
MsgNoImageFileSelected == [fmt |-> "No image file selected"]
MsgFileTypeNotAllowed == [fmt |-> "File type not allowed"]
MsgProductAdded(name) == [fmt |-> "Product '{name}' added successfully!", name |-> name]
MsgGalleryAdded == [fmt |-> "Gallery image added successfully!"]
MsgDatabaseError(e) == [fmt |-> "Database error: {str(e)}", e |-> e]
MsgDeletionError(e) == [fmt |-> "Database error during deletion: {str(e)}", e |-> e]
MsgProductDeleted(id) == [fmt |-> "Product ID {id} has been deleted.", id |-> id]
MsgProductNotFound(id) == [fmt |-> "Product ID {id} not found.", id |-> id]
MsgGalleryDeleted(id) == [fmt |-> "Gallery image ID {id} has been deleted.", id |-> id]
MsgGalleryNotFound(id) == [fmt |-> "Gallery image ID {id} not found.", id |-> id]
MsgRequired == [fmt |-> "Name and Contact are required."]
MsgSubmitted == [fmt |-> "Request submitted successfully."]
MsgInvalidAction == [fmt |-> "Invalid action."]
MsgRequestHandled(id, new_status) ==
    [fmt |-> "Request ID {id} has been {new_status}.", id |-> id, new_status |-> new_status]
MsgIncorrectPassword == [fmt |-> "Incorrect Password"]

\* app.logger.error(f"<what>: {e}")
LogDbError(what, e) == [text |-> what, e |-> e]

\* app.logger.error(f"Error deleting file: {e.filename} - {e.strerror}")
LogRemoveError(filename, strerror) ==
    [text |-> "Error deleting file", filename |-> filename, strerror |-> strerror]

(***************************************************************************)
(* The routes, each request served from its first line to its response.    *)
(***************************************************************************)
\* ids a request may name: the ids the sequences can hand out, and 0, which no row has
ContentIds == 0..MaxItems
RequestIds == 0..MaxRequests

\* admin_required, without an admin session: redirect home, the view is not called
RedirectHome ==
    /\ response' = Redirect("home")
    /\ logged' = { }
    /\ UNCHANGED << products, productSeq, gallery, gallerySeq, requests, requestSeq,
                    clock, files, session, thr >>

\* POST /admin_login
admin_login(password) ==
    /\ endpoint' = "admin_login"
    /\ IF password # None /\ password = "pawar@yoga"
       THEN /\ session' = DictSet(session, "admin_logged_in", TRUE)
            /\ response' = JsonRedirect("admin_panel")
       ELSE /\ session' = DictSet(session, "admin_logged_in", FALSE)
            /\ response' = Json(200, FALSE, MsgIncorrectPassword)
    /\ logged' = { }
    /\ UNCHANGED << products, productSeq, gallery, gallerySeq, requests, requestSeq,
                    clock, files, thr >>

\* GET /logout
logout ==
    /\ endpoint' = "logout"
    /\ session' = DictPop(session, "admin_logged_in")
    /\ response' = Redirect("home")
    /\ logged' = { }
    /\ UNCHANGED << products, productSeq, gallery, gallerySeq, requests, requestSeq,
                    clock, files, thr >>

\* POST /add_product
add_product(form, file, dbError) ==
    /\ endpoint' = "add_product"
    /\ productSeq + gallerySeq < MaxItems
    /\ UNCHANGED << gallery, gallerySeq, requests, requestSeq, clock, thr >>
    /\ IF ~IsAdmin THEN RedirectHome
       ELSE /\ response' = Redirect("admin_panel")
            /\ IF ~file.present \/ file.filename = << >>
               THEN /\ session' = Flash(MsgNoSelectedFile, "error")
                    /\ logged' = { }
                    /\ UNCHANGED << products, productSeq, files >>
               ELSE IF AllowedFile[file.filename]
               THEN LET filename == SecureFilename[file.filename] IN
                    /\ files' = FileSave(files, filename, file.payload)
                    /\ IF dbError = None
                       THEN /\ products' = InsertRow(products, NextId(productSeq),
                                   [name |-> form.name, description |-> form.description,
                                    price |-> IF form.price = None THEN "0.0" ELSE form.price,
                                    image_filename |-> filename])
                            /\ productSeq' = NextId(productSeq)
                            /\ session' = Flash(MsgProductAdded(form.name), "success")
                            /\ logged' = { }
                       ELSE /\ UNCHANGED << products, productSeq >>
                            /\ session' = Flash(MsgDatabaseError(dbError), "error")
                            /\ logged' = { LogDbError("Error adding product", dbError) }
               ELSE /\ session' = Flash(MsgFileTypeNotAllowed, "error")
                    /\ logged' = { }
                    /\ UNCHANGED << products, productSeq, files >>

\* POST /delete_product/<int:id>
delete_product(id, rmError, dbError) ==
    /\ endpoint' = "delete_product"
    /\ UNCHANGED << productSeq, gallery, gallerySeq, requests, requestSeq, clock, thr >>
    /\ IF ~IsAdmin THEN RedirectHome
       ELSE LET product == SelectImageFilename(products, id) IN
            /\ response' = Redirect("admin_panel")
            /\ IF product # << >>
               THEN LET filename == product[1].image_filename
                        oserror == OsRemoveError(files, filename, rmError)
                    IN  /\ files' = IF oserror = None THEN OsRemove(files, filename) ELSE files
                        /\ IF dbError = None
                           THEN /\ products' = DeleteRow(products, id)
                                /\ session' = Flash(MsgProductDeleted(id), "success")
                           ELSE /\ UNCHANGED products
                                /\ session' = Flash(MsgDeletionError(dbError), "error")
                        /\ logged' =
                             (IF oserror = None THEN { }
                              ELSE { LogRemoveError(filename, oserror) })
                             \cup
                             (IF dbError = None THEN { }
                              ELSE { LogDbError("Error deleting product from DB", dbError) })
               ELSE /\ session' = Flash(MsgProductNotFound(id), "error")
                    /\ logged' = { }
                    /\ UNCHANGED << products, files >>

\* POST /add_gallery_image
add_gallery_image(form, file, dbError) ==
    /\ endpoint' = "add_gallery_image"
    /\ productSeq + gallerySeq < MaxItems
    /\ UNCHANGED << products, productSeq, requests, requestSeq, clock, thr >>
    /\ IF ~IsAdmin THEN RedirectHome
       ELSE /\ response' = Redirect("admin_panel")
            /\ IF ~file.present \/ file.filename = << >>
               THEN /\ session' = Flash(MsgNoImageFileSelected, "error")
                    /\ logged' = { }
                    /\ UNCHANGED << gallery, gallerySeq, files >>
               ELSE IF AllowedFile[file.filename]
               THEN LET filename == SecureFilename[file.filename] IN
                    /\ files' = FileSave(files, filename, file.payload)
                    /\ IF dbError = None
                       THEN /\ gallery' = InsertRow(gallery, NextId(gallerySeq),
                                   [title |-> form.title, image_filename |-> filename,
                                    category |-> IF form.category = None THEN "all"
                                                 ELSE form.category])
                            /\ gallerySeq' = NextId(gallerySeq)
                            /\ session' = Flash(MsgGalleryAdded, "success")
                            /\ logged' = { }
                       ELSE /\ UNCHANGED << gallery, gallerySeq >>
                            /\ session' = Flash(MsgDatabaseError(dbError), "error")
                            /\ logged' = { LogDbError("Error adding gallery image", dbError) }
               ELSE /\ session' = Flash(MsgFileTypeNotAllowed, "error")
                    /\ logged' = { }
                    /\ UNCHANGED << gallery, gallerySeq, files >>

\* POST /delete_gallery_image/<int:id>
delete_gallery_image(id, rmError, dbError) ==
    /\ endpoint' = "delete_gallery_image"
    /\ UNCHANGED << products, productSeq, gallerySeq, requests, requestSeq, clock, thr >>
    /\ IF ~IsAdmin THEN RedirectHome
       ELSE LET item == SelectImageFilename(gallery, id) IN
            /\ response' = Redirect("admin_panel")
            /\ IF item # << >>
               THEN LET filename == item[1].image_filename
                        oserror == OsRemoveError(files, filename, rmError)
                    IN  /\ files' = IF oserror = None THEN OsRemove(files, filename) ELSE files
                        /\ IF dbError = None
                           THEN /\ gallery' = DeleteRow(gallery, id)
                                /\ session' = Flash(MsgGalleryDeleted(id), "success")
                           ELSE /\ UNCHANGED gallery
                                /\ session' = Flash(MsgDeletionError(dbError), "error")
                        /\ logged' =
                             (IF oserror = None THEN { }
                              ELSE { LogRemoveError(filename, oserror) })
                             \cup
                             (IF dbError = None THEN { }
                              ELSE { LogDbError("Error deleting gallery image from DB", dbError) })
               ELSE /\ session' = Flash(MsgGalleryNotFound(id), "error")
                    /\ logged' = { }
                    /\ UNCHANGED << gallery, files >>

(***************************************************************************)
(* Consultation requests.                                                  *)
(***************************************************************************)
\* request.json of POST /submit_consultation: a field the body does not send is None
SubmitBodies ==
    { [name |-> "Asha", contact |-> "555-1234", notes |-> None],
      [name |-> " ",    contact |-> "555-1234", notes |-> "evenings"],
      [name |-> "",     contact |-> "555-1234", notes |-> None],
      [name |-> None,   contact |-> "555-1234", notes |-> None],
      [name |-> "Asha", contact |-> "",         notes |-> None],
      [name |-> "Asha", contact |-> None,       notes |-> None],
      [name |-> None,   contact |-> None,       notes |-> "evenings"] }

\* the <string:action> of /handle_request/<action>/<id>
Actions == { "accept", "reject", "maybe" }

\* a mutant of Falsy: only None fails the test, the empty string passes
FalsyNoneOnly(x) == x = None

\* Python's "not x" for a value that is None or a string
Falsy(x) == x = None \/ x = ""

\* a mutant of UpdateStatus: no WHERE clause, every row is updated
UpdateStatusAll(table, id, status) ==
    [i \in DOMAIN table |-> [table[i] EXCEPT !.status = status]]

\* a mutant of UpdateStatus: WHERE id = :id AND status = 'pending'
UpdateStatusPendingOnly(table, id, status) ==
    [i \in DOMAIN table |-> IF i = id /\ table[i].status = "pending"
                            THEN [table[i] EXCEPT !.status = status] ELSE table[i]]

\* UPDATE consultation_requests SET status = :status WHERE id = :id
\* (no such row: nothing is updated, nothing is raised)
UpdateStatus(table, id, status) ==
    [i \in DOMAIN table |-> IF i = id THEN [table[i] EXCEPT !.status = status] ELSE table[i]]

\* the database clock moves on between requests
Tick ==
    /\ clock < MaxClock
    /\ clock' = clock + 1
    /\ UNCHANGED << products, productSeq, gallery, gallerySeq, requests, requestSeq,
                    files, session, endpoint, response, logged, thr >>

\* POST /submit_consultation
submit_consultation(data, dbError) ==
    /\ endpoint' = "submit_consultation"
    /\ requestSeq < MaxRequests
    /\ UNCHANGED << products, productSeq, gallery, gallerySeq, clock, files, session, thr >>
    /\ LET name == data.name
           contact == data.contact
           notes == IF data.notes = None THEN "" ELSE data.notes
       IN  IF Falsy(name) \/ Falsy(contact)
           THEN /\ response' = Json(400, FALSE, MsgRequired)
                /\ logged' = { }
                /\ UNCHANGED << requests, requestSeq >>
           ELSE IF dbError = None
           THEN /\ requests' = InsertRow(requests, NextId(requestSeq),
                       [name |-> name, contact |-> contact, notes |-> notes,
                        status |-> "pending", requested_on |-> clock])
                /\ requestSeq' = NextId(requestSeq)
                /\ response' = Json(200, TRUE, MsgSubmitted)
                /\ logged' = { }
           ELSE /\ UNCHANGED << requests, requestSeq >>
                /\ response' = Json(500, FALSE, MsgDatabaseError(dbError))
                /\ logged' = { LogDbError("Error submitting consultation", dbError) }

\* a mutant of NewStatus: the elif branch assigns nothing, reject keeps 'pending'
NewStatusNoReject(action) ==
    IF action = "accept" THEN "accepted" ELSE "pending"

\* a mutant of NewStatus: the two branches swapped
NewStatusSwapped(action) ==
    IF action = "accept" THEN "rejected"
    ELSE IF action = "reject" THEN "accepted"
    ELSE "pending"

\* a mutant of NewStatus: accept writes a status outside the three
NewStatusApproved(action) ==
    IF action = "accept" THEN "approved"
    ELSE IF action = "reject" THEN "rejected"
    ELSE "pending"

\* new_status = 'pending'; if action == 'accept': ... elif action == 'reject': ...
NewStatus(action) ==
    IF action = "accept" THEN "accepted"
    ELSE IF action = "reject" THEN "rejected"
    ELSE "pending"

\* a mutant of ValidAction: the else branch is never taken
ValidActionAny(action) == TRUE

\* the if/elif branches of handle_request that do not return "Invalid action."
ValidAction(action) == action = "accept" \/ action = "reject"

\* POST /handle_request/<string:action>/<int:id>
handle_request(action, id, dbError) ==
    /\ endpoint' = "handle_request"
    /\ UNCHANGED << products, productSeq, gallery, gallerySeq, requestSeq, clock, files, thr >>
    /\ IF ~IsAdmin THEN RedirectHome
       ELSE /\ response' = Redirect("admin_panel")
            /\ IF ~ValidAction(action)
               THEN /\ session' = Flash(MsgInvalidAction, "error")
                    /\ logged' = { }
                    /\ UNCHANGED requests
               ELSE LET new_status == NewStatus(action) IN
                    IF dbError = None
                    THEN /\ requests' = UpdateStatus(requests, id, new_status)
                         /\ session' = Flash(MsgRequestHandled(id, new_status), "success")
                         /\ logged' = { }
                    ELSE /\ UNCHANGED requests
                         /\ session' = Flash(MsgDatabaseError(dbError), "error")
                         /\ logged' = { LogDbError("Error updating request status", dbError) }

(***************************************************************************)
(* The admin panel and its listings.                                       *)
(***************************************************************************)
\* a row as a listing shows it
Listed(table, id) == [id |-> id, row |-> table[id]]

\* SELECT * FROM <table>: the rows, each once, in any order
Arrangements(table) ==
    LET n == Cardinality(DOMAIN table) IN
    { [i \in 1..n |-> Listed(table, ids[i])] :
        ids \in { s \in [1..n -> DOMAIN table] : \A i, j \in 1..n : i # j => s[i] # s[j] } }

\* ORDER BY id DESC
IdDesc(a, b) == a.id >= b.id

\* CASE WHEN status = 'pending' THEN 1 ELSE 2 END
PendingFirst(r) == IF r.row.status = "pending" THEN 1 ELSE 2

\* a mutant of the ordering of fetch_all_requests: requested_on ascending
PendingFirstThenOldest(a, b) ==
    \/ PendingFirst(a) < PendingFirst(b)
    \/ PendingFirst(a) = PendingFirst(b) /\ a.row.requested_on <= b.row.requested_on

\* a mutant of the ordering of fetch_all_requests: no CASE, newest first only
NewestOnly(a, b) == a.row.requested_on >= b.row.requested_on

\* ORDER BY CASE WHEN status = 'pending' THEN 1 ELSE 2 END, requested_on DESC
PendingFirstThenNewest(a, b) ==
    \/ PendingFirst(a) < PendingFirst(b)
    \/ PendingFirst(a) = PendingFirst(b) /\ a.row.requested_on >= b.row.requested_on

\* the orders in which a SELECT ... ORDER BY may return the rows: those the sort
\* keys allow (no row after one its keys precede); rows whose keys tie come in
\* either order
fetch_all_products ==
    { l \in Arrangements(products) : \A i, j \in 1..Len(l) : i < j => IdDesc(l[i], l[j]) }

fetch_all_gallery_items ==
    { l \in Arrangements(gallery) : \A i, j \in 1..Len(l) : i < j => IdDesc(l[i], l[j]) }

fetch_all_requests ==
    { l \in Arrangements(requests) :
        \A i, j \in 1..Len(l) : i < j => PendingFirstThenNewest(l[i], l[j]) }

\* session.pop(key, None), the value: << >> is None
Popped(key) == IF key \in DOMAIN session THEN << session[key] >> ELSE << >>

\* GET /admin
admin_panel ==
    /\ endpoint' = "admin_panel"
    /\ UNCHANGED << products, productSeq, gallery, gallerySeq, requests, requestSeq,
                    clock, files, thr >>
    /\ IF ~IsAdmin THEN RedirectHome
       ELSE /\ \E ps \in fetch_all_products, gs \in fetch_all_gallery_items,
                  rs \in fetch_all_requests :
                 response' = Html("admin.html",
                                  [products |-> ps, gallery_items |-> gs, requests |-> rs,
                                   message |-> Popped("message"),
                                   message_type |-> Popped("message_type")])
            /\ session' = DictPop(DictPop(session, "message"), "message_type")
            /\ logged' = { }

(***************************************************************************)
(* The content-item routes served concurrently: each worker thread runs    *)
(* one request, and the steps of two requests interleave at every access   *)
(* to the upload directory and to the database.                            *)
(***************************************************************************)
Workers == { "w1", "w2" }

Idle == [pc |-> "idle"]

\* the worker has returned its response; flash is what it put into the session
Done(route, id, resp, flash) ==
    [pc |-> "done", route |-> route, id |-> id, response |-> resp, flash |-> flash]

NoFlash == [message |-> [fmt |-> "None"], type |-> "None"]
Flashed(message, type) == [message |-> message, type |-> type]

\* the requests the concurrent workers serve
\* (their payloads are the blocks of the file, two of one and one of the other)
ConcUploads ==
    { Upload(<< "a", ".", "p", "n", "g" >>, << "a1", "a2" >>),
      Upload(<< ".", ".", "/", "a", ".", "p", "n", "g" >>, << "b1" >>) }

ConcForms(route) ==
    IF route = "add_product"
    THEN { [name |-> "Mat", description |-> "A yoga mat", price |-> None] }
    ELSE { [title |-> "Pose", category |-> None] }

\* creates that have opened their file and not yet inserted their row
Inserting == { w \in Workers : thr[w].pc \in { "file_write", "db_insert" } }

\* open(dst, "wb"): the file is created, or truncated when it is there
FileOpenWb(dir, filename) ==
    [f \in DOMAIN dir \cup { filename } |-> IF f = filename THEN << >> ELSE dir[f]]

\* a mutant of WriteAtStart: the write replaces all the file holds
WriteWhole(content, payload) == payload

\* dst.write(payload) through a descriptor at offset 0: the blocks written replace
\* the first blocks of the file, what the file holds beyond them stays
WriteAtStart(content, payload) ==
    payload \o SubSeq(content, Len(payload) + 1, Len(content))

\* add_product / add_gallery_image up to the open(dst, "wb") of file.save(filepath)
add_file_open(w, route, form, file) ==
    /\ thr[w].pc = "idle"
    /\ productSeq + gallerySeq + Cardinality(Inserting) < MaxItems
    /\ UNCHANGED << products, productSeq, gallery, gallerySeq, requests, requestSeq,
                    clock, endpoint, response >>
    /\ logged' = { }
    /\ IF ~IsAdmin
       THEN /\ thr' = [thr EXCEPT ![w] = Done(route, 0, Redirect("home"), NoFlash)]
            /\ UNCHANGED << files, session >>
       ELSE IF ~file.present \/ file.filename = << >>
       THEN LET message == IF route = "add_product" THEN MsgNoSelectedFile
                           ELSE MsgNoImageFileSelected IN
            /\ session' = Flash(message, "error")
            /\ thr' = [thr EXCEPT ![w] = Done(route, 0, Redirect("admin_panel"),
                                              Flashed(message, "error"))]
            /\ UNCHANGED files
       ELSE IF AllowedFile[file.filename]
       THEN LET filename == SecureFilename[file.filename] IN
            /\ files' = FileOpenWb(files, filename)
            /\ thr' = [thr EXCEPT ![w] = [pc |-> "file_write", route |-> route,
                                          form |-> form, filename |-> filename,
                                          payload |-> file.payload, unlinked |-> FALSE]]
            /\ UNCHANGED session
       ELSE /\ session' = Flash(MsgFileTypeNotAllowed, "error")
            /\ thr' = [thr EXCEPT ![w] = Done(route, 0, Redirect("admin_panel"),
                                              Flashed(MsgFileTypeNotAllowed, "error"))]
            /\ UNCHANGED files

\* file.save(filepath) after its open: the payload is written and the file closed.
\* A file that os.remove unlinked since the open is written to, but has no name.
add_file_write(w) ==
    /\ thr[w].pc = "file_write"
    /\ UNCHANGED << products, productSeq, gallery, gallerySeq, requests, requestSeq,
                    clock, session, endpoint, response >>
    /\ logged' = { }
    /\ files' = IF thr[w].unlinked THEN files
                ELSE [files EXCEPT ![thr[w].filename] =
                                      WriteAtStart(files[thr[w].filename], thr[w].payload)]
    /\ thr' = [thr EXCEPT ![w] = [pc |-> "db_insert", route |-> thr[w].route,
                                  form |-> thr[w].form, filename |-> thr[w].filename]]

\* add_product / add_gallery_image from the INSERT to the redirect
add_db_insert(w, dbError) ==
    /\ thr[w].pc = "db_insert"
    /\ UNCHANGED << requests, requestSeq, clock, files, endpoint, response >>
    /\ LET route == thr[w].route
           form == thr[w].form
           filename == thr[w].filename
           id == IF route = "add_product" THEN NextId(productSeq) ELSE NextId(gallerySeq)
           message == IF dbError # None THEN MsgDatabaseError(dbError)
                      ELSE IF route = "add_product" THEN MsgProductAdded(form.name)
                      ELSE MsgGalleryAdded
           type == IF dbError = None THEN "success" ELSE "error"
       IN  /\ IF dbError # None
              THEN UNCHANGED << products, productSeq, gallery, gallerySeq >>
              ELSE IF route = "add_product"
              THEN /\ products' = InsertRow(products, id,
                          [name |-> form.name, description |-> form.description,
                           price |-> IF form.price = None THEN "0.0" ELSE form.price,
                           image_filename |-> filename])
                   /\ productSeq' = id
                   /\ UNCHANGED << gallery, gallerySeq >>
              ELSE /\ gallery' = InsertRow(gallery, id,
                          [title |-> form.title, image_filename |-> filename,
                           category |-> IF form.category = None THEN "all"
                                        ELSE form.category])
                   /\ gallerySeq' = id
                   /\ UNCHANGED << products, productSeq >>
           /\ session' = Flash(message, type)
           /\ logged' = IF dbError = None THEN { }
                        ELSE { LogDbError(IF route = "add_product" THEN "Error adding product"
                                          ELSE "Error adding gallery image", dbError) }
           /\ thr' = [thr EXCEPT ![w] = Done(route, IF dbError = None THEN id ELSE 0,
                                             Redirect("admin_panel"), Flashed(message, type))]

\* delete_product / delete_gallery_image up to the SELECT and the test of its row
delete_select(w, route, id) ==
    /\ thr[w].pc = "idle"
    /\ UNCHANGED << products, productSeq, gallery, gallerySeq, requests, requestSeq,
                    clock, files, endpoint, response >>
    /\ logged' = { }
    /\ IF ~IsAdmin
       THEN /\ thr' = [thr EXCEPT ![w] = Done(route, id, Redirect("home"), NoFlash)]
            /\ UNCHANGED session
       ELSE LET row == SelectImageFilename(IF route = "delete_product" THEN products
                                           ELSE gallery, id)
                message == IF route = "delete_product" THEN MsgProductNotFound(id)
                           ELSE MsgGalleryNotFound(id)
            IN  IF row # << >>
                THEN /\ thr' = [thr EXCEPT ![w] = [pc |-> "os_remove", route |-> route,
                                                   id |-> id,
                                                   filename |-> row[1].image_filename]]
                     /\ UNCHANGED session
                ELSE /\ session' = Flash(message, "error")
                     /\ thr' = [thr EXCEPT ![w] = Done(route, id, Redirect("admin_panel"),
                                                       Flashed(message, "error"))]

\* delete_product / delete_gallery_image: the os.remove and its except OSError
delete_os_remove(w, rmError) ==
    /\ thr[w].pc = "os_remove"
    /\ UNCHANGED << products, productSeq, gallery, gallerySeq, requests, requestSeq,
                    clock, session, endpoint, response >>
    /\ LET filename == thr[w].filename
           oserror == OsRemoveError(files, filename, rmError)
       IN  /\ files' = IF oserror = None THEN OsRemove(files, filename) ELSE files
           /\ logged' = IF oserror = None THEN { }
                        ELSE { LogRemoveError(filename, oserror) }
           /\ thr' = [v \in Workers |->
                        IF v = w THEN [thr[w] EXCEPT !.pc = "db_delete"]
                        ELSE IF /\ oserror = None
                                /\ thr[v].pc = "file_write"
                                /\ thr[v].filename = filename
                        THEN [thr[v] EXCEPT !.unlinked = TRUE]
                        ELSE thr[v]]

\* delete_product / delete_gallery_image from the DELETE to the redirect
delete_db_delete(w, dbError) ==
    /\ thr[w].pc = "db_delete"
    /\ UNCHANGED << productSeq, gallerySeq, requests, requestSeq, clock, files, endpoint, response >>
    /\ LET route == thr[w].route
           id == thr[w].id
           message == IF dbError # None THEN MsgDeletionError(dbError)
                      ELSE IF route = "delete_product" THEN MsgProductDeleted(id)
                      ELSE MsgGalleryDeleted(id)
           type == IF dbError = None THEN "success" ELSE "error"
       IN  /\ IF dbError # None THEN UNCHANGED << products, gallery >>
              ELSE IF route = "delete_product"
              THEN products' = DeleteRow(products, id) /\ UNCHANGED gallery
              ELSE gallery' = DeleteRow(gallery, id) /\ UNCHANGED products
           /\ session' = Flash(message, type)
           /\ logged' = IF dbError = None THEN { }
                        ELSE { LogDbError(IF route = "delete_product"
                                          THEN "Error deleting product from DB"
                                          ELSE "Error deleting gallery image from DB",
                                          dbError) }
           /\ thr' = [thr EXCEPT ![w] = Done(route, id, Redirect("admin_panel"),
                                             Flashed(message, type))]

\* the response leaves the worker, which is free for the next request
respond(w) ==
    /\ thr[w].pc = "done"
    /\ thr' = [thr EXCEPT ![w] = Idle]
    /\ logged' = { }
    /\ UNCHANGED << products, productSeq, gallery, gallerySeq, requests, requestSeq,
                    clock, files, session, endpoint, response >>

(***************************************************************************)
(* The specifications.                                                     *)
(***************************************************************************)
Init ==
    /\ products = << >>
    /\ productSeq = 0
    /\ gallery = << >>
    /\ gallerySeq = 0
    /\ requests = << >>
    /\ requestSeq = 0
    /\ clock = 0
    /\ files = << >>
    /\ session = << >>
    /\ endpoint = "none"
    /\ response = [kind |-> "none"]
    /\ logged = { }
    /\ thr = [w \in Workers |-> Idle]

Login == \E password \in Passwords : admin_login(password)

Logout == logout

AddProduct ==
    \E form \in ProductForms, file \in Uploads, dbError \in DbOutcomes :
        add_product(form, file, dbError)

DeleteProduct ==
    \E id \in ContentIds, rmError \in RmOutcomes, dbError \in DbOutcomes :
        delete_product(id, rmError, dbError)

AddGalleryImage ==
    \E form \in GalleryForms, file \in Uploads, dbError \in DbOutcomes :
        add_gallery_image(form, file, dbError)

DeleteGalleryImage ==
    \E id \in ContentIds, rmError \in RmOutcomes, dbError \in DbOutcomes :
        delete_gallery_image(id, rmError, dbError)

Submit ==
    \E data \in SubmitBodies, dbError \in DbOutcomes :
        submit_consultation(data, dbError)

HandleRequest ==
    \E action \in Actions, id \in RequestIds, dbError \in DbOutcomes :
        handle_request(action, id, dbError)

AdminPanel == admin_panel

\* an administrator has logged in (admin_login with the right password)
InitAdmin ==
    /\ products = << >>
    /\ productSeq = 0
    /\ gallery = << >>
    /\ gallerySeq = 0
    /\ requests = << >>
    /\ requestSeq = 0
    /\ clock = 0
    /\ files = << >>
    /\ session = [admin_logged_in |-> TRUE]
    /\ endpoint = "admin_login"
    /\ response = JsonRedirect("admin_panel")
    /\ logged = { }
    /\ thr = [w \in Workers |-> Idle]

\* the content-item routes of a logged-in administrator, one request at a time
NextContent ==
    \/ AddProduct
    \/ DeleteProduct
    \/ AddGalleryImage
    \/ DeleteGalleryImage

SpecContent == InitAdmin /\ [][NextContent]_vars

\* the consultation-request routes (the administrator is logged in), one request
\* at a time
NextWorkflow ==
    \/ Submit
    \/ HandleRequest
    \/ AdminPanel
    \/ Tick

SpecWorkflow == InitAdmin /\ [][NextWorkflow]_vars

AddFileOpen ==
    \E w \in Workers, route \in { "add_product", "add_gallery_image" }, file \in ConcUploads :
        \E form \in ConcForms(route) : add_file_open(w, route, form, file)

AddFileWrite == \E w \in Workers : add_file_write(w)

AddDbInsert ==
    \E w \in Workers, dbError \in DbOutcomes : add_db_insert(w, dbError)

DeleteSelect ==
    \E w \in Workers, route \in { "delete_product", "delete_gallery_image" },
       id \in ContentIds : delete_select(w, route, id)

DeleteOsRemove ==
    \E w \in Workers, rmError \in RmOutcomes : delete_os_remove(w, rmError)

DeleteDbDelete ==
    \E w \in Workers, dbError \in DbOutcomes : delete_db_delete(w, dbError)

Respond == \E w \in Workers : respond(w)

\* the content-item routes, two requests at a time
NextConcurrent ==
    \/ AddFileOpen
    \/ AddFileWrite
    \/ AddDbInsert
    \/ DeleteSelect
    \/ DeleteOsRemove
    \/ DeleteDbDelete
    \/ Respond

SpecConcurrent == InitAdmin /\ [][NextConcurrent]_vars

(***************************************************************************)
(* The gate: a visitor who may log in (rightly or wrongly) and out, and    *)
(* who calls every route, with or without an administrator session; the   *)
(* database and the file system do not fail here.                          *)
(***************************************************************************)
GateUploads ==
    { Upload(<< "a", ".", "p", "n", "g" >>, "bytes1"),
      Upload(<< "a", ".", "e", "x", "e" >>, "bytes1") }

GateProductForms == { [name |-> "Mat", description |-> "A yoga mat", price |-> None] }

GateGalleryForms == { [title |-> "Pose", category |-> None] }

GateBodies ==
    { [name |-> "Asha", contact |-> "555-1234", notes |-> None],
      [name |-> "",     contact |-> "555-1234", notes |-> None] }

GateAddProduct ==
    \E form \in GateProductForms, file \in GateUploads : add_product(form, file, None)

GateDeleteProduct ==
    \E id \in ContentIds : delete_product(id, None, None)

GateAddGalleryImage ==
    \E form \in GateGalleryForms, file \in GateUploads :
        add_gallery_image(form, file, None)

GateDeleteGalleryImage ==
    \E id \in ContentIds : delete_gallery_image(id, None, None)

GateSubmit ==
    \E data \in GateBodies : submit_consultation(data, None)

GateHandleRequest ==
    \E action \in Actions, id \in RequestIds : handle_request(action, id, None)

NextGate ==
    \/ Login
    \/ Logout
    \/ GateAddProduct
    \/ GateDeleteProduct
    \/ GateAddGalleryImage
    \/ GateDeleteGalleryImage
    \/ GateSubmit
    \/ GateHandleRequest

SpecGate == Init /\ [][NextGate]_vars

(***************************************************************************)
(* Storage failures: a logged-in administrator and a visitor call the      *)
(* writing routes one request at a time, and every write may fail.         *)
(***************************************************************************)
\* requests that reach the write: a file that is allowed, a body that is complete,
\* an action that is valid
StorageUploads == { Upload(<< "a", ".", "p", "n", "g" >>, "bytes1") }

StorageBodies == { [name |-> "Asha", contact |-> "555-1234", notes |-> None] }

StorageAddProduct ==
    \E form \in GateProductForms, file \in StorageUploads, dbError \in DbOutcomes :
        add_product(form, file, dbError)

StorageDeleteProduct ==
    \E id \in ContentIds, dbError \in DbOutcomes : delete_product(id, None, dbError)

StorageAddGalleryImage ==
    \E form \in GateGalleryForms, file \in StorageUploads, dbError \in DbOutcomes :
        add_gallery_image(form, file, dbError)

StorageDeleteGalleryImage ==
    \E id \in ContentIds, dbError \in DbOutcomes : delete_gallery_image(id, None, dbError)

StorageSubmit ==
    \E data \in StorageBodies, dbError \in DbOutcomes : submit_consultation(data, dbError)

StorageHandleRequest ==
    \E action \in { "accept", "reject" }, id \in RequestIds, dbError \in DbOutcomes :
        handle_request(action, id, dbError)

NextStorage ==
    \/ StorageAddProduct
    \/ StorageDeleteProduct
    \/ StorageAddGalleryImage
    \/ StorageDeleteGalleryImage
    \/ StorageSubmit
    \/ StorageHandleRequest

SpecStorage == InitAdmin /\ [][NextStorage]_vars

(***************************************************************************)
(* What the claims speak of.                                               *)
(***************************************************************************)
\* the flash message and its type, as the session holds them
FlashIs(message, type) ==
    /\ "message" \in DOMAIN session /\ session["message"] = message
    /\ "message_type" \in DOMAIN session /\ session["message_type"] = type

FlashIsNext(message, type) ==
    /\ "message" \in DOMAIN session' /\ session'["message"] = message
    /\ "message_type" \in DOMAIN session' /\ session'["message_type"] = type

\* a later lookup of the row: SELECT ... WHERE id = :id finds nothing
NotFoundNext(tableNext, id) == SelectImageFilename(tableNext, id) = << >>

\* this step serves a request routed to view
Serves(view) == endpoint' = view

(***************************************************************************)
(* C1 (as stated): for every kind and every id of an existing row,         *)
(* Delete(kind, id) removes both the row and the file the row references,  *)
(* and a lookup of the id afterwards finds nothing.                        *)
(***************************************************************************)
C1_DeleteAlwaysRemovesRowAndFile ==
    [][/\ Serves("delete_product") =>
            \A id \in ContentIds, rmError \in RmOutcomes, dbError \in DbOutcomes :
               (IsAdmin /\ id \in DOMAIN products /\ delete_product(id, rmError, dbError))
                  => /\ id \notin DOMAIN products'
                     /\ products[id].image_filename \notin DOMAIN files'
                     /\ NotFoundNext(products', id)
       /\ Serves("delete_gallery_image") =>
            \A id \in ContentIds, rmError \in RmOutcomes, dbError \in DbOutcomes :
               (IsAdmin /\ id \in DOMAIN gallery /\ delete_gallery_image(id, rmError, dbError))
                  => /\ id \notin DOMAIN gallery'
                     /\ gallery[id].image_filename \notin DOMAIN files'
                     /\ NotFoundNext(gallery', id)]_vars

(***************************************************************************)
(* C1 (amended): for every kind and every id of an existing row, when the  *)
(* row deletion commits and os.remove does not refuse a file that is       *)
(* there, Delete(kind, id) removes both the row and the file and reports   *)
(* success, and a lookup of the id afterwards finds nothing; a Delete of   *)
(* an id that has no row (as after that Delete) reports '... ID <id> not   *)
(* found.' with type error and changes neither the Record Store nor the    *)
(* Blob Store.                                                             *)
(***************************************************************************)
C1_DeleteRemovesRowAndFile ==
    [][/\ Serves("delete_product") =>
            \A id \in ContentIds, rmError \in RmOutcomes, dbError \in DbOutcomes :
               (IsAdmin /\ delete_product(id, rmError, dbError))
                  => IF id \in DOMAIN products
                     THEN (/\ dbError = None
                           /\ OsRemoveError(files, products[id].image_filename, rmError)
                                 \in { None, ENOENT })
                          => /\ id \notin DOMAIN products'
                             /\ products[id].image_filename \notin DOMAIN files'
                             /\ NotFoundNext(products', id)
                             /\ FlashIsNext(MsgProductDeleted(id), "success")
                     ELSE /\ FlashIsNext(MsgProductNotFound(id), "error")
                          /\ UNCHANGED << products, productSeq, gallery, gallerySeq,
                                          requests, requestSeq, files >>
       /\ Serves("delete_gallery_image") =>
            \A id \in ContentIds, rmError \in RmOutcomes, dbError \in DbOutcomes :
               (IsAdmin /\ delete_gallery_image(id, rmError, dbError))
                  => IF id \in DOMAIN gallery
                     THEN (/\ dbError = None
                           /\ OsRemoveError(files, gallery[id].image_filename, rmError)
                                 \in { None, ENOENT })
                          => /\ id \notin DOMAIN gallery'
                             /\ gallery[id].image_filename \notin DOMAIN files'
                             /\ NotFoundNext(gallery', id)
                             /\ FlashIsNext(MsgGalleryDeleted(id), "success")
                     ELSE /\ FlashIsNext(MsgGalleryNotFound(id), "error")
                          /\ UNCHANGED << products, productSeq, gallery, gallerySeq,
                                          requests, requestSeq, files >>]_vars

\* C1, reached: product 1 was created and deleted, its file is gone, and a second
\* delete_product(1) has answered "Product ID 1 not found."
C1_Witness ==
    /\ productSeq >= 1
    /\ 1 \notin DOMAIN products
    /\ files = << >>
    /\ endpoint = "delete_product"
    /\ FlashIs(MsgProductNotFound(1), "error")


(***************************************************************************)
(* C2 and C3 speak of the extension of the uploaded name in their own      *)
(* words: the name ends in "." and one of png, jpg, jpeg, gif, webp, in    *)
(* any case.                                                               *)
(***************************************************************************)
EndsWithExtension(filename, ext) ==
    LET n == Len(filename)
        k == Len(ext)
    IN  /\ n >= k + 1
        /\ filename[n - k] = "."
        /\ \A i \in 1..k : LowerChar(filename[n - k + i]) = ext[i]

HasAllowedExtension(filename) ==
    \E ext \in ALLOWED_EXTENSIONS : EndsWithExtension(filename, ext)

\* a Create whose file is there, named, and of an allowed extension
ValidUpload(file) ==
    file.present /\ file.filename # << >> /\ HasAllowedExtension(file.filename)

ValidUploads == { file \in Uploads : ValidUpload(file) }

InvalidUploads == Uploads \ ValidUploads

\* the products table after the step holds exactly one row more, under an id no
\* row has or had (ids only grow: every id handed out so far is <= productSeq)
OneNewProduct(id) ==
    /\ id \notin DOMAIN products
    /\ id > productSeq
    /\ DOMAIN products' = DOMAIN products \cup { id }
    /\ \A i \in DOMAIN products : products'[i] = products[i]

OneNewGalleryImage(id) ==
    /\ id \notin DOMAIN gallery
    /\ id > gallerySeq
    /\ DOMAIN gallery' = DOMAIN gallery \cup { id }
    /\ \A i \in DOMAIN gallery : gallery'[i] = gallery[i]

\* the Blob Store, after the step, holds exactly payload under filename
HoldsNext(filename, payload) ==
    filename \in DOMAIN files' /\ files'[filename] = payload

ProductCreated(form, file) ==
    \E id \in DOMAIN products' :
        /\ OneNewProduct(id)
        /\ products'[id].name = form.name
        /\ products'[id].description = form.description
        /\ products'[id].price = (IF form.price = None THEN "0.0" ELSE form.price)
        /\ products'[id].image_filename = SecureFilename[file.filename]
        /\ SelectImageFilename(products', id) =
              << [image_filename |-> SecureFilename[file.filename]] >>
        /\ HoldsNext(products'[id].image_filename, file.payload)
        /\ UNCHANGED << gallery, gallerySeq >>

GalleryImageCreated(form, file) ==
    \E id \in DOMAIN gallery' :
        /\ OneNewGalleryImage(id)
        /\ gallery'[id].title = form.title
        /\ gallery'[id].category = (IF form.category = None THEN "all" ELSE form.category)
        /\ gallery'[id].image_filename = SecureFilename[file.filename]
        /\ SelectImageFilename(gallery', id) =
              << [image_filename |-> SecureFilename[file.filename]] >>
        /\ HoldsNext(gallery'[id].image_filename, file.payload)
        /\ UNCHANGED << products, productSeq >>

\* ids are never handed out twice: the sequences only grow and no row is above them
IdsOnlyGrow ==
    /\ productSeq' >= productSeq
    /\ gallerySeq' >= gallerySeq
    /\ \A i \in DOMAIN products' : i <= productSeq'
    /\ \A i \in DOMAIN gallery' : i <= gallerySeq'

(***************************************************************************)
(* C2 (as stated): every valid Create whose file has an allowed extension  *)
(* adds exactly one row with a fresh identifier, and a lookup of that row  *)
(* returns the metadata supplied and the sanitized filename, under which   *)
(* the Blob Store holds exactly the uploaded payload.                      *)
(***************************************************************************)
C2_ValidCreateAlwaysAddsRow ==
    [][/\ Serves("add_product") =>
            \A form \in ProductForms, file \in ValidUploads, dbError \in DbOutcomes :
               (IsAdmin /\ add_product(form, file, dbError))
                  => ProductCreated(form, file)
       /\ Serves("add_gallery_image") =>
            \A form \in GalleryForms, file \in ValidUploads, dbError \in DbOutcomes :
               (IsAdmin /\ add_gallery_image(form, file, dbError))
                  => GalleryImageCreated(form, file)]_vars

(***************************************************************************)
(* C2 (amended): every valid Create whose file has an allowed extension    *)
(* and whose row insert commits adds exactly one row with a fresh          *)
(* identifier (one no existing or earlier row has), and a lookup of that   *)
(* row immediately afterwards returns the metadata supplied and the        *)
(* sanitized filename, under which the Blob Store holds exactly the        *)
(* uploaded payload.                                                       *)
(***************************************************************************)
C2_ValidCreateAddsRow ==
    [][/\ IdsOnlyGrow
       /\ Serves("add_product") =>
            \A form \in ProductForms, file \in ValidUploads :
               (IsAdmin /\ add_product(form, file, None))
                  => /\ ProductCreated(form, file)
                     /\ FlashIsNext(MsgProductAdded(form.name), "success")
       /\ Serves("add_gallery_image") =>
            \A form \in GalleryForms, file \in ValidUploads :
               (IsAdmin /\ add_gallery_image(form, file, None))
                  => /\ GalleryImageCreated(form, file)
                     /\ FlashIsNext(MsgGalleryAdded, "success")]_vars

\* C2, reached: after a first product, "../a.png" was uploaded with bytes2 for the
\* product Oil: row 2 holds the form's fields and the name "a.png", and the
\* Blob Store holds bytes2 under it
C2_Witness ==
    /\ endpoint = "add_product"
    /\ FlashIs(MsgProductAdded("Oil"), "success")
    /\ DOMAIN products = { 1, 2 }
    /\ products[2] = [name |-> "Oil", description |-> "Massage oil", price |-> "499",
                      image_filename |-> << "a", ".", "p", "n", "g" >>]
    /\ products[1].image_filename = << "a", ".", "p", "n", "g" >>
    /\ files = [f \in { << "a", ".", "p", "n", "g" >> } |-> "bytes2"]

(***************************************************************************)
(* C3: every Create whose file is missing, has an empty name, or has an    *)
(* extension outside {png, jpg, jpeg, gif, webp} (case-insensitively)      *)
(* reports InvalidFile, an error-type message, and changes neither the     *)
(* Blob Store nor the Record Store.                                        *)
(***************************************************************************)
C3_InvalidFileTouchesNothing ==
    [][/\ Serves("add_product") =>
            \A form \in ProductForms, file \in InvalidUploads, dbError \in DbOutcomes :
               (IsAdmin /\ add_product(form, file, dbError))
                  => /\ \/ FlashIsNext(MsgNoSelectedFile, "error")
                        \/ FlashIsNext(MsgFileTypeNotAllowed, "error")
                     /\ UNCHANGED << products, productSeq, gallery, gallerySeq,
                                     requests, requestSeq, files >>
       /\ Serves("add_gallery_image") =>
            \A form \in GalleryForms, file \in InvalidUploads, dbError \in DbOutcomes :
               (IsAdmin /\ add_gallery_image(form, file, dbError))
                  => /\ \/ FlashIsNext(MsgNoImageFileSelected, "error")
                        \/ FlashIsNext(MsgFileTypeNotAllowed, "error")
                     /\ UNCHANGED << products, productSeq, gallery, gallerySeq,
                                     requests, requestSeq, files >>]_vars

\* C3, reached: with a product and its file in place, an upload was refused as
\* "File type not allowed"
C3_Witness ==
    /\ endpoint = "add_gallery_image"
    /\ FlashIs(MsgFileTypeNotAllowed, "error")
    /\ DOMAIN products = { 1 }
    /\ gallery = << >>
    /\ DOMAIN files = { products[1].image_filename }

(***************************************************************************)
(* C4: every Submit whose name is empty or absent, or whose contact is     *)
(* empty or absent, returns ValidationFailed (success false, HTTP 400) and *)
(* leaves the set of consultation request rows unchanged.                  *)
(***************************************************************************)
EmptyOrAbsent(x) == x \in { None, "" }

IncompleteBodies ==
    { data \in SubmitBodies : EmptyOrAbsent(data.name) \/ EmptyOrAbsent(data.contact) }

C4_IncompleteSubmitIsRefused ==
    [][Serves("submit_consultation") =>
          \A data \in IncompleteBodies, dbError \in DbOutcomes :
             submit_consultation(data, dbError)
                => /\ response' = Json(400, FALSE, MsgRequired)
                   /\ UNCHANGED << requests, requestSeq >>]_vars

\* C4, reached: with one request stored, a Submit was answered 400 and the one
\* request is all there is
C4_Witness ==
    /\ endpoint = "submit_consultation"
    /\ response = Json(400, FALSE, MsgRequired)
    /\ DOMAIN requests = { 1 }
    /\ requestSeq = 1

(***************************************************************************)
(* C5: for every existing request id, when no storage failure occurs,      *)
(* Transition(id, accept) leaves that request accepted and                 *)
(* Transition(id, reject) leaves it rejected; and the status of a request  *)
(* changes in no step but a Transition of that id with accept or reject.   *)
(***************************************************************************)
StatusChanged(id) ==
    id \in DOMAIN requests' /\ requests'[id].status # requests[id].status

C5_StatusFollowsAcceptReject ==
    [][/\ Serves("handle_request") =>
            \A id \in DOMAIN requests :
               /\ (IsAdmin /\ handle_request("accept", id, None))
                     => id \in DOMAIN requests' /\ requests'[id].status = "accepted"
               /\ (IsAdmin /\ handle_request("reject", id, None))
                     => id \in DOMAIN requests' /\ requests'[id].status = "rejected"
       /\ \A id \in DOMAIN requests :
             StatusChanged(id)
                => /\ Serves("handle_request")
                   /\ IsAdmin
                   /\ \/ handle_request("accept", id, None)
                      \/ handle_request("reject", id, None)]_vars

\* C5, reached: of two requests one was accepted and then the other rejected
C5_Witness ==
    /\ endpoint = "handle_request"
    /\ DOMAIN requests = { 1, 2 }
    /\ requests[1].status = "accepted"
    /\ requests[2].status = "rejected"
    /\ FlashIs(MsgRequestHandled(2, "rejected"), "success")

(***************************************************************************)
(* C6: for every action other than accept and reject, Transition(id,       *)
(* action) reports InvalidAction ("Invalid action.", type error) and       *)
(* touches no storage: every request, the one named by id included, keeps  *)
(* its status.                                                             *)
(***************************************************************************)
C6_InvalidActionTouchesNothing ==
    [][Serves("handle_request") =>
          \A action \in Actions \ { "accept", "reject" }, id \in RequestIds,
             dbError \in DbOutcomes :
             (IsAdmin /\ handle_request(action, id, dbError))
                => /\ FlashIsNext(MsgInvalidAction, "error")
                   /\ logged' = { }
                   /\ UNCHANGED << products, productSeq, gallery, gallerySeq,
                                   requests, requestSeq, files >>]_vars

\* C6, reached: an accepted request is still accepted after "Invalid action."
C6_Witness ==
    /\ endpoint = "handle_request"
    /\ FlashIs(MsgInvalidAction, "error")
    /\ DOMAIN requests = { 1 }
    /\ requests[1].status = "accepted"

(***************************************************************************)
(* C7: in every reachable state the administrative listing of the          *)
(* consultation requests shows every request once, every pending request   *)
(* before every accepted or rejected one, and within the pending group and *)
(* within the group of the others the later submitted (greater             *)
(* requested_on) first, accepted and rejected interleaved.  What the admin *)
(* panel last rendered is such a listing.                                  *)
(***************************************************************************)
IsPending(r) == r.row.status = "pending"

PendingThenNewestFirst(l) ==
    \A i, j \in 1..Len(l) :
        i < j => /\ IsPending(l[j]) => IsPending(l[i])
                 /\ (IsPending(l[i]) <=> IsPending(l[j]))
                       => l[i].row.requested_on >= l[j].row.requested_on

ListsEveryRequestOnce(l) ==
    /\ Len(l) = Cardinality(DOMAIN requests)
    /\ { l[i].id : i \in 1..Len(l) } = DOMAIN requests
    /\ \A i \in 1..Len(l) : l[i].row = requests[l[i].id]

C7_ListingPendingFirstNewestFirst ==
    /\ fetch_all_requests # { }
    /\ \A l \in fetch_all_requests : ListsEveryRequestOnce(l) /\ PendingThenNewestFirst(l)
    /\ response.kind = "html" => PendingThenNewestFirst(response.context.requests)

\* C7, reached: the admin panel shows the pending request 1 before the later
\* submitted request 2, which is accepted
C7_Witness ==
    /\ endpoint = "admin_panel"
    /\ response.kind = "html"
    /\ Len(response.context.requests) = 2
    /\ response.context.requests[1].id = 1
    /\ response.context.requests[1].row.status = "pending"
    /\ response.context.requests[2].id = 2
    /\ response.context.requests[2].row.status = "accepted"
    /\ response.context.requests[1].row.requested_on
          < response.context.requests[2].row.requested_on

(***************************************************************************)
(* C8: in every reachable state the status of every consultation request   *)
(* is one of pending, accepted, rejected, and a request is pending in the  *)
(* state right after the Submit that created it.                           *)
(***************************************************************************)
Statuses == { "pending", "accepted", "rejected" }

C8_StatusIsOneOfThree ==
    /\ [](\A id \in DOMAIN requests : requests[id].status \in Statuses)
    /\ [][\A id \in DOMAIN requests' \ DOMAIN requests :
             /\ Serves("submit_consultation")
             /\ requests'[id].status = "pending"]_vars

\* C8, reached: right after the Submit that created it request 2 is pending,
\* next to a request that has been rejected
C8_Witness ==
    /\ endpoint = "submit_consultation"
    /\ response = Json(200, TRUE, MsgSubmitted)
    /\ DOMAIN requests = { 1, 2 }
    /\ requests[1].status = "rejected"
    /\ requests[2].status = "pending"

(***************************************************************************)
(* C9: when two Deletes of the same kind and the same id run concurrently, *)
(* their lookup, file-removal and row-deletion steps interleaved in any    *)
(* order, at most one of them reports success.                             *)
(***************************************************************************)
ReportsDeleted(w) ==
    /\ thr[w].pc = "done"
    /\ thr[w].route \in { "delete_product", "delete_gallery_image" }
    /\ thr[w].flash.type = "success"

C9_AtMostOneDeleteSucceeds ==
    \A v, w \in Workers :
        (v # w /\ ReportsDeleted(v) /\ ReportsDeleted(w))
           => ~(thr[v].route = thr[w].route /\ thr[v].id = thr[w].id)

(***************************************************************************)
(* C10: in every state reachable by Creates and Deletes of products and    *)
(* gallery images, which share one upload directory, every row references  *)
(* a filename under which the Blob Store holds a file.                     *)
(***************************************************************************)
C10_EveryRowHasItsFile ==
    /\ \A id \in DOMAIN products : products[id].image_filename \in DOMAIN files
    /\ \A id \in DOMAIN gallery : gallery[id].image_filename \in DOMAIN files

(***************************************************************************)
(* C11: in every reachable state no two ContentItem rows, of products and  *)
(* gallery images together, reference the same stored filename.           *)
(***************************************************************************)
C11_NoTwoRowsShareAFile ==
    /\ \A i, j \in DOMAIN products :
          i # j => products[i].image_filename # products[j].image_filename
    /\ \A i, j \in DOMAIN gallery :
          i # j => gallery[i].image_filename # gallery[j].image_filename
    /\ \A i \in DOMAIN products, j \in DOMAIN gallery :
          products[i].image_filename # gallery[j].image_filename

(***************************************************************************)
(* C12: Submit is the only operation that changes the Record Store or the  *)
(* Blob Store without an administrator session: every create, delete and   *)
(* transition invoked while the session is not logged in as administrator  *)
(* leaves both stores and the session (so the flash message) unchanged, in *)
(* every reachable state, also after a logout or a failed login.           *)
(***************************************************************************)
NotLoggedIn ==
    \/ "admin_logged_in" \notin DOMAIN session
    \/ session["admin_logged_in"] # TRUE

AdminRoutes ==
    { "add_product", "delete_product", "add_gallery_image", "delete_gallery_image",
      "handle_request" }

StoresUnchanged ==
    UNCHANGED << products, productSeq, gallery, gallerySeq, requests, requestSeq, files >>

C12_OnlySubmitWritesWithoutAdmin ==
    [][NotLoggedIn =>
          /\ endpoint' \in AdminRoutes
                => StoresUnchanged /\ UNCHANGED session /\ response' = Redirect("home")
          /\ ~StoresUnchanged => Serves("submit_consultation")]_vars

\* C12, reached: an administrator added a product, a wrong password then logged
\* the session out, and the add_product that followed was sent home
C12_Witness ==
    /\ endpoint = "add_product"
    /\ response = Redirect("home")
    /\ "admin_logged_in" \in DOMAIN session
    /\ session["admin_logged_in"] = FALSE
    /\ DOMAIN products = { 1 }
    /\ DOMAIN files = { products[1].image_filename }

(***************************************************************************)
(* C13: Submit validates name and contact after trimming: a submission     *)
(* whose name or contact consists only of whitespace is rejected with      *)
(* ValidationFailed (success false, HTTP 400) and creates no row.          *)
(***************************************************************************)
\* str.strip() of the names and contacts submitted: " " is the one that changes
Trimmed(x) == IF x = " " THEN "" ELSE x

BlankBodies ==
    { data \in SubmitBodies :
        \/ data.name # None /\ data.name # "" /\ Trimmed(data.name) = ""
        \/ data.contact # None /\ data.contact # "" /\ Trimmed(data.contact) = "" }

C13_BlankSubmitIsRefused ==
    [][Serves("submit_consultation") =>
          \A data \in BlankBodies, dbError \in DbOutcomes :
             submit_consultation(data, dbError)
                => /\ response' = Json(400, FALSE, MsgRequired)
                   /\ UNCHANGED << requests, requestSeq >>]_vars

(***************************************************************************)
(* C14: in Create the file is written before the row is inserted: when the *)
(* row insert fails, the Record Store has no new row, the file written is  *)
(* in the Blob Store, and the operation reports StorageFailure, a message  *)
(* of type error, not success.                                             *)
(***************************************************************************)
C14_FailedInsertKeepsFile ==
    [][/\ Serves("add_product") =>
            \A form \in ProductForms, file \in ValidUploads, dbError \in DbErrors :
               (IsAdmin /\ add_product(form, file, dbError))
                  => /\ UNCHANGED << products, gallery >>
                     /\ HoldsNext(SecureFilename[file.filename], file.payload)
                     /\ FlashIsNext(MsgDatabaseError(dbError), "error")
       /\ Serves("add_gallery_image") =>
            \A form \in GalleryForms, file \in ValidUploads, dbError \in DbErrors :
               (IsAdmin /\ add_gallery_image(form, file, dbError))
                  => /\ UNCHANGED << products, gallery >>
                     /\ HoldsNext(SecureFilename[file.filename], file.payload)
                     /\ FlashIsNext(MsgDatabaseError(dbError), "error")]_vars

\* C14, reached: the insert of a gallery image failed; there is no row, and the
\* upload directory holds the file under its sanitized name
C14_Witness ==
    /\ endpoint = "add_gallery_image"
    /\ FlashIs(MsgDatabaseError("OperationalError"), "error")
    /\ products = << >>
    /\ gallery = << >>
    /\ files = [f \in { << "a", ".", "p", "n", "g" >> } |-> "bytes2"]

(***************************************************************************)
(* C15: in Delete of an existing id the removal of the file is attempted   *)
(* before the removal of the row and its failure does not abort: when the  *)
(* file is missing or cannot be removed and the row deletion commits, the  *)
(* row is removed and the operation reports success, not an error.         *)
(***************************************************************************)
\* the file is not there, or the file system refuses to remove it
RemovalFails(filename, rmError) == filename \notin DOMAIN files \/ rmError # None

C15_FileFailureDoesNotAbortDelete ==
    [][/\ Serves("delete_product") =>
            \A id \in DOMAIN products, rmError \in RmOutcomes :
               (/\ IsAdmin
                /\ RemovalFails(products[id].image_filename, rmError)
                /\ delete_product(id, rmError, None))
                  => /\ id \notin DOMAIN products'
                     /\ FlashIsNext(MsgProductDeleted(id), "success")
                     /\ UNCHANGED << files, gallery >>
       /\ Serves("delete_gallery_image") =>
            \A id \in DOMAIN gallery, rmError \in RmOutcomes :
               (/\ IsAdmin
                /\ RemovalFails(gallery[id].image_filename, rmError)
                /\ delete_gallery_image(id, rmError, None))
                  => /\ id \notin DOMAIN gallery'
                     /\ FlashIsNext(MsgGalleryDeleted(id), "success")
                     /\ UNCHANGED << files, products >>]_vars

\* C15, reached: product 1 was deleted although its file could not be removed:
\* the row is gone, the file is there, the failure is in the log only
C15_Witness ==
    /\ endpoint = "delete_product"
    /\ FlashIs(MsgProductDeleted(1), "success")
    /\ products = << >>
    /\ productSeq = 1
    /\ DOMAIN files = { << "a", ".", "p", "n", "g" >> }
    /\ logged = { LogRemoveError(<< "a", ".", "p", "n", "g" >>, EACCES) }

(***************************************************************************)
(* C16: for a valid action (accept or reject) and an id that names no      *)
(* request, Transition reports success ("Request ID <id> has been          *)
(* <status>.", type success) while the Record Store is unchanged: no row   *)
(* is created and no request changes its status.                           *)
(***************************************************************************)
\* the status an action asks for
StatusOf(action) == IF action = "accept" THEN "accepted" ELSE "rejected"

C16_TransitionOfNoRowReportsSuccess ==
    [][Serves("handle_request") =>
          \A action \in { "accept", "reject" }, id \in RequestIds \ DOMAIN requests :
             (IsAdmin /\ handle_request(action, id, None))
                => /\ FlashIsNext(MsgRequestHandled(id, StatusOf(action)), "success")
                   /\ UNCHANGED << requests, requestSeq >>]_vars

\* C16, reached: "Request ID 2 has been accepted." was reported while request 1,
\* pending, is the only request there is
C16_Witness ==
    /\ endpoint = "handle_request"
    /\ FlashIs(MsgRequestHandled(2, "accepted"), "success")
    /\ DOMAIN requests = { 1 }
    /\ requests[1].status = "pending"
    /\ requestSeq = 1

(***************************************************************************)
(* C17: Transition does not inspect the current status: applied to a       *)
(* request that is already accepted or rejected it overwrites the status   *)
(* with the one the action maps to, and the same valid action applied to   *)
(* the same id right after it succeeded leaves the Record Store as it is.  *)
(***************************************************************************)
\* the request served last was a Transition of id that reported status
JustHandled(id, status) ==
    endpoint = "handle_request" /\ FlashIs(MsgRequestHandled(id, status), "success")

C17_TransitionOverwritesAndRepeats ==
    [][Serves("handle_request") =>
          \A action \in { "accept", "reject" }, id \in DOMAIN requests :
             (IsAdmin /\ handle_request(action, id, None))
                => /\ requests[id].status \in { "accepted", "rejected" }
                         => requests' = [requests EXCEPT ![id].status = StatusOf(action)]
                   /\ JustHandled(id, StatusOf(action)) => UNCHANGED requests]_vars

\* C17, reached: request 2 was rejected and request 1 has just been accepted; a
\* reject of request 1 can follow and overwrites accepted with rejected, and an
\* accept of request 2 overwrites rejected with accepted
C17_Witness ==
    /\ JustHandled(1, "accepted")
    /\ DOMAIN requests = { 1, 2 }
    /\ requests[1].status = "accepted"
    /\ requests[2].status = "rejected"
    /\ ENABLED (handle_request("reject", 1, None) /\ requests'[1].status = "rejected")
    /\ ENABLED (handle_request("accept", 2, None) /\ requests'[2].status = "accepted")

(***************************************************************************)
(* C20: once the status of a consultation request is accepted or rejected  *)
(* it is never pending again, under any sequence of Submit and Transition  *)
(* operations, valid, invalid or failing; and no operation removes a       *)
(* request row.                                                            *)
(***************************************************************************)
C20_NeverPendingAgain ==
    [][\A id \in DOMAIN requests :
          /\ id \in DOMAIN requests'
          /\ requests[id].status # "pending" => requests'[id].status # "pending"]_vars

\* C20, reached: request 1, rejected before, is not pending after a further
\* request was submitted and an invalid action was sent
C20_Witness ==
    /\ DOMAIN requests = { 1, 2 }
    /\ requests[1].status = "rejected"
    /\ requests[2].status = "pending"
    /\ endpoint = "handle_request"
    /\ FlashIs(MsgInvalidAction, "error")

(***************************************************************************)
(* C18: when two Creates whose filenames sanitize to the same name run     *)
(* concurrently and both row inserts commit, both rows exist and reference *)
(* that one filename, neither reports an error, and the Blob Store holds   *)
(* under the name the payload of the file write that happened last: a      *)
(* write leaves exactly its payload, and with both rows in place the file  *)
(* is the payload of one of the two uploads.                               *)
(***************************************************************************)
ReportsAdded(w) ==
    /\ thr[w].pc = "done"
    /\ thr[w].route \in { "add_product", "add_gallery_image" }
    /\ thr[w].flash.type = "success"

TableOf(w) == IF thr[w].route = "add_product" THEN products ELSE gallery

\* the row w reports to have added is there
RowAdded(w) == thr[w].id \in DOMAIN TableOf(w)

ConcPayloads == { file.payload : file \in ConcUploads }

C18_LastWriterWins ==
    /\ [](\A v, w \in Workers :
            (/\ v # w
             /\ ReportsAdded(v) /\ RowAdded(v)
             /\ ReportsAdded(w) /\ RowAdded(w)
             /\ TableOf(v)[thr[v].id].image_filename = TableOf(w)[thr[w].id].image_filename)
               => LET filename == TableOf(w)[thr[w].id].image_filename
                  IN  filename \in DOMAIN files /\ files[filename] \in ConcPayloads)
    /\ [][\A w \in Workers :
            (add_file_write(w) /\ ~thr[w].unlinked)
               => HoldsNext(thr[w].filename, thr[w].payload)]_vars

(***************************************************************************)
(* C19: for each of Create, Delete, Submit and Transition, when the Record *)
(* Store write fails the transaction is rolled back, so the Record Store   *)
(* is as it was before the operation, and the failure is reported as an    *)
(* error (a flash message of type error for the administrator operations,  *)
(* success false with HTTP 500 for Submit), not as success and not as an   *)
(* unhandled fault: the operation answers as it always does.               *)
(***************************************************************************)
TablesUnchanged == UNCHANGED << products, gallery, requests >>

\* the administrator is told of the failure and sent back to the panel
FlashedErrorNext ==
    /\ "message_type" \in DOMAIN session' /\ session'["message_type"] = "error"
    /\ "message" \in DOMAIN session'
    /\ session'["message"].fmt \in { "Database error: {str(e)}",
                                    "Database error during deletion: {str(e)}" }
    /\ response' = Redirect("admin_panel")

C19_FailedWriteIsRolledBack ==
    [][/\ Serves("add_product") =>
            \A form \in GateProductForms, file \in StorageUploads, dbError \in DbErrors :
               (IsAdmin /\ add_product(form, file, dbError))
                  => TablesUnchanged /\ FlashedErrorNext
       /\ Serves("add_gallery_image") =>
            \A form \in GateGalleryForms, file \in StorageUploads, dbError \in DbErrors :
               (IsAdmin /\ add_gallery_image(form, file, dbError))
                  => TablesUnchanged /\ FlashedErrorNext
       /\ Serves("delete_product") =>
            \A id \in DOMAIN products, dbError \in DbErrors :
               (IsAdmin /\ delete_product(id, None, dbError))
                  => TablesUnchanged /\ FlashedErrorNext
       /\ Serves("delete_gallery_image") =>
            \A id \in DOMAIN gallery, dbError \in DbErrors :
               (IsAdmin /\ delete_gallery_image(id, None, dbError))
                  => TablesUnchanged /\ FlashedErrorNext
       /\ Serves("submit_consultation") =>
            \A data \in StorageBodies, dbError \in DbErrors :
               submit_consultation(data, dbError)
                  => /\ TablesUnchanged
                     /\ response' = Json(500, FALSE, MsgDatabaseError(dbError))
       /\ Serves("handle_request") =>
            \A action \in { "accept", "reject" }, id \in RequestIds, dbError \in DbErrors :
               (IsAdmin /\ handle_request(action, id, dbError))
                  => TablesUnchanged /\ FlashedErrorNext]_vars

\* C19, reached: with a product and a pending request in place, the UPDATE of an
\* accept failed: the request is still pending and the flash is the database error
C19_Witness ==
    /\ endpoint = "handle_request"
    /\ FlashIs(MsgDatabaseError("OperationalError"), "error")
    /\ DOMAIN products = { 1 }
    /\ DOMAIN requests = { 1 }
    /\ requests[1].status = "pending"
    /\ logged = { LogDbError("Error updating request status", "OperationalError") }

=============================================================================
